---- MODULE Spec2Model ----
(***************************************************************************)
(* A model of scripts/validate_grafico.py: the Validator of an Archi       *)
(* Grafico repository.                                                     *)
(*                                                                         *)
(* Strings are sequences of tokens.  A token is an atomic substring: a     *)
(* word of letters and digits ("BusinessActor", "id", "1"), or one of the  *)
(* separators "_", "-", "/", "#", ":" and the literal ".xml".  The regular *)
(* expressions of the source are computed on these sequences the way the   *)
(* regex engine computes them (greedy, leftmost group first).              *)
(*                                                                         *)
(* The repository on disk is the variable repo; no action changes it.      *)
(***************************************************************************)
EXTENDS Integers, Sequences, FiniteSets, TLC

VARIABLES
    repo,             \* the repository on disk (input, never written)
    pc,               \* position in main(): the next phase to execute
    errors,           \* self.errors
    warnings,         \* self.warnings
    class_to_folder,  \* self.class_to_folder
    relation_rules,   \* self.relation_rules
    basename_to_path, \* self.basename_to_path
    file_meta,        \* self.file_meta
    ret,              \* what Validator.run returned (None before it returns)
    ran,              \* history: the methods of Validator.run executed so far
    fallback,         \* history: times check_hrefs reached its on-demand parse
    args,             \* the arguments of a direct _is_relationship_allowed call
    result            \* what that call returned

vars == <<repo, pc, errors, warnings, class_to_folder, relation_rules,
          basename_to_path, file_meta, ret, ran, fallback, args, result>>

(***************************************************************************)
(* Bounds of the model.                                                    *)
(***************************************************************************)
\* content files in the model directory
MaxFiles == 2
\* top-level folders that are broken at once
MaxBroken == 1
\* rules of a rule document
MaxRules == 2
\* descendants of the root of a referring file
MaxDescendants == 1
\* connections of a diagram
MaxConnections == 1

(***************************************************************************)
(* Python values.                                                          *)
(***************************************************************************)
\* Python's None where a string is expected (dict.get, Element.get, Element.find)
None == <<"<None>">>
\* the empty string
Empty == <<>>
\* truthiness of an optional string: neither None nor ""
Truthy(s) == s # None /\ s # Empty

TOP_FOLDERS ==
    << <<"Strategy">>, <<"Business">>, <<"Application">>, <<"Technology">>,
       <<"Motivation">>, <<"Implementation_Migration">>, <<"Other">>,
       <<"Relations">>, <<"Diagrams">> >>

Range(s) == {s[i] : i \in DOMAIN s}

\* the concatenation of the sequences of a sequence, in order
RECURSIVE Flatten(_)
Flatten(ss) == IF ss = <<>> THEN <<>> ELSE Head(ss) \o Flatten(Tail(ss))

(***************************************************************************)
(* Diagnostics.  A message is abstracted to its kind (which f-string of    *)
(* the source produced it), the file it names (index in repo.files, 0 for  *)
(* none) and a detail (the side, or the folder).  The field node is a      *)
(* history field: the element of the file the check was looking at.        *)
(***************************************************************************)
Msg(kind, f, n, d) == [kind |-> kind, f |-> f, n |-> n, d |-> d]

(***************************************************************************)
(* check_structure                                                         *)
(***************************************************************************)
\* a folder descriptor: what parse_xml and the root test make of folder.xml
DescErrors(status, name) ==
    IF status = "unparsable" THEN << Msg("parse", 0, 0, name) >>
    ELSE IF status = "wrongroot" THEN << Msg("descriptor_root", 0, 0, name) >>
    ELSE <<>>

StructureErrors(r) ==
    IF ~r.modelDir THEN << Msg("missing_model_dir", 0, 0, <<"model">>) >>
    ELSE
        LET missingRoot ==
                IF r.rootDesc = "missing"
                THEN << Msg("missing_root_descriptor", 0, 0, <<"model">>) >>
                ELSE <<>>
            MissingTop(i) ==
                LET f == TOP_FOLDERS[i] IN
                IF r.top[f] = "nodir" THEN << Msg("missing_top_folder", 0, 0, f) >>
                ELSE IF r.top[f] = "missing" THEN << Msg("missing_descriptor", 0, 0, f) >>
                ELSE <<>>
            rootDescriptor ==
                IF r.rootDesc # "missing" THEN DescErrors(r.rootDesc, <<"model">>) ELSE <<>>
            SubDescriptor(i) ==
                LET f == TOP_FOLDERS[i] IN
                IF r.top[f] \notin {"nodir", "missing"} THEN DescErrors(r.top[f], f) ELSE <<>>
        IN  missingRoot
            \o Flatten([i \in DOMAIN TOP_FOLDERS |-> MissingTop(i)])
            \o rootDescriptor
            \o Flatten([i \in DOMAIN TOP_FOLDERS |-> SubDescriptor(i)])

(***************************************************************************)
(* Strings and the regular expressions of the source.                      *)
(***************************************************************************)
\* tokens with a character outside [A-Za-z0-9_]
Separators == {"-", "/", "#", ":", ".xml"}

SubStr(s, a, b) == [i \in 1..(b - a + 1) |-> s[a + i - 1]]

\* localname(tag): tags are kept without their namespace
localname(tag) == tag

\* FILENAME_RE = ^([A-Za-z0-9_]+)_(.+)\.xml$ : the places k where group 1 may end
FilenameSplits(base) ==
    {k \in 1..Len(base) :
        /\ Len(base) >= k + 3
        /\ base[Len(base)] = ".xml"
        /\ base[k + 1] = "_"
        /\ \A i \in 1..k : base[i] \notin Separators}

\* FILENAME_RE.match(base): None, or <<group 1, group 2>>; the first group is
\* greedy, so it ends at the last place the rest of the pattern still matches
NoMatch == << None, None >>

FILENAME_RE(base) ==
    IF FilenameSplits(base) = {} THEN NoMatch
    ELSE LET k == CHOOSE x \in FilenameSplits(base) :
                      \A y \in FilenameSplits(base) : y <= x
         IN  << SubStr(base, 1, k), SubStr(base, k + 2, Len(base) - 1) >>

\* a word of exactly 32 hexadecimal digits
Hex32 == {"0123456789abcdef0123456789ABCDEF"}

\* ID_RECOMMENDED = ^id-[0-9A-Fa-f]{32}$
ID_RECOMMENDED(fid) ==
    Len(fid) = 3 /\ fid[1] = "id" /\ fid[2] = "-" /\ fid[3] \in Hex32

\* ^([^/]+\.xml)#(.+)$ : the places k where group 1 may end
HrefSplits(href) ==
    {k \in 2..Len(href) :
        /\ Len(href) >= k + 2
        /\ href[k] = ".xml"
        /\ href[k + 1] = "#"
        /\ \A i \in 1..(k - 1) : href[i] # "/"}

\* Python's None where a Path is expected
NoPath == [top |-> None, name |-> None]

\* a resolver whose pattern ends in #(.*)$ and so takes an empty fragment
ResolveHrefEmptyFragment(b2p, href) ==
    LET splits == {k \in 2..Len(href) :
                      /\ Len(href) >= k + 1
                      /\ href[k] = ".xml"
                      /\ href[k + 1] = "#"
                      /\ \A i \in 1..(k - 1) : href[i] # "/"}
    IN  IF splits = {} THEN [tgt |-> NoPath, frag |-> None]
        ELSE LET k == CHOOSE x \in splits : \A y \in splits : y <= x
                 fname == SubStr(href, 1, k)
             IN  [tgt |-> IF fname \in DOMAIN b2p THEN b2p[fname] ELSE NoPath,
                  frag |-> SubStr(href, k + 2, Len(href))]

\* Validator._resolve_href: the pair (tgt, frag)
ResolveHref(b2p, href) ==
    IF HrefSplits(href) = {} THEN [tgt |-> NoPath, frag |-> None]
    ELSE LET k == CHOOSE x \in HrefSplits(href) : \A y \in HrefSplits(href) : y <= x
             fname == SubStr(href, 1, k)
             frag == SubStr(href, k + 2, Len(href))
         IN  [tgt |-> IF fname \in DOMAIN b2p THEN b2p[fname] ELSE NoPath,
              frag |-> frag]

\* t.split(":", 1)[1] when ":" is in t
StripPrefix(t) ==
    IF \E i \in DOMAIN t : t[i] = ":"
    THEN LET k == CHOOSE i \in DOMAIN t : t[i] = ":" /\ \A j \in 1..(i - 1) : t[j] # ":"
         IN  SubStr(t, k + 1, Len(t))
    ELSE t

(***************************************************************************)
(* Files.  A content file is [top, name, parses, cr, nodes]: its top-level *)
(* folder, its basename, whether ET.parse accepts it, whether its bytes    *)
(* hold a CR, and its elements in document order (nodes[1] the root), each  *)
(* [tag, parent, id, href, xtype, source, target] with parent the index of  *)
(* its parent (0 for the root) and None for an attribute it lacks.          *)
(***************************************************************************)
Path(f) == [top |-> f.top, name |-> f.name]

\* the position in repo.files of the file at a path (rglob's order)
FileIdx(r, p) == CHOOSE i \in DOMAIN r.files : Path(r.files[i]) = p

\* parse_xml: whether it returns (it raises ValueError otherwise)
parse_xml(f) == f.parses

\* root.get("id") or ""
RootId(f) == IF f.nodes[1].id = None THEN Empty ELSE f.nodes[1].id

\* dict assignment d[k] = v
Put(d, k, v) == [x \in DOMAIN d \union {k} |-> IF x = k THEN v ELSE d[x]]

\* the empty dict
EmptyDict == [x \in {} |-> None]

(***************************************************************************)
(* index_files: [b2p, meta, errs] after the files from position i on       *)
(***************************************************************************)
RECURSIVE IndexFrom(_, _, _)
IndexFrom(r, i, st) ==
    IF i > Len(r.files) THEN st
    ELSE
        LET f == r.files[i]
            b2p == Put(st.b2p, f.name, Path(f))
        IN  IF ~parse_xml(f)
            THEN IndexFrom(r, i + 1,
                     [st EXCEPT !.b2p = b2p,
                                !.errs = @ \o << Msg("parse", i, 0, f.name) >>])
            ELSE
                LET rid == RootId(f)
                    e == IF ~Truthy(rid) THEN << Msg("missing_root_id", i, 1, f.name) >>
                         ELSE <<>>
                IN  IndexFrom(r, i + 1,
                        [b2p |-> b2p,
                         meta |-> Put(st.meta, Path(f), << localname(f.nodes[1].tag), rid >>),
                         errs |-> st.errs \o e])

\* the keys of file_meta in insertion order, as positions in repo.files
RECURSIVE MetaOrderFrom(_, _, _)
MetaOrderFrom(r, meta, i) ==
    IF i > Len(r.files) THEN <<>>
    ELSE (IF Path(r.files[i]) \in DOMAIN meta THEN <<i>> ELSE <<>>)
         \o MetaOrderFrom(r, meta, i + 1)

MetaOrder(r, meta) == MetaOrderFrom(r, meta, 1)

(***************************************************************************)
(* check_files_and_ids                                                     *)
(***************************************************************************)
DiagramTokens == { <<"ArchimateDiagramModel">>, <<"SketchModel">> }

\* the filename tokens exempt from the root test (line 175)
ExemptFromRootTest(cls, root_local) == cls \in DiagramTokens

\* the errors of one file of file_meta
FileIdErrors(r, c2f, meta, i) ==
    LET f == r.files[i]
        root_local == meta[Path(f)][1]
        rid == meta[Path(f)][2]
        m == FILENAME_RE(f.name)
    IN  IF m = NoMatch THEN << Msg("invalid_filename", i, 0, f.name) >>
        ELSE
            LET cls == m[1]
                fid == m[2]
                expected == IF cls \in DOMAIN c2f THEN c2f[cls] ELSE None
            IN  (IF ~ExemptFromRootTest(cls, root_local) /\ root_local # cls
                 THEN << Msg("class_mismatch", i, 1, cls) >> ELSE <<>>)
                \o (IF rid # fid THEN << Msg("id_mismatch", i, 1, fid) >> ELSE <<>>)
                \o (IF r.strict_ids /\ ~ID_RECOMMENDED(fid)
                    THEN << Msg("id_format", i, 1, fid) >> ELSE <<>>)
                \o (IF DOMAIN c2f # {} /\ Truthy(expected) /\ Truthy(f.top)
                       /\ expected # f.top
                    THEN << Msg("placement", i, 0, expected) >> ELSE <<>>)

\* the warning of one file of file_meta; a file whose name does not match
\* FILENAME_RE is left by `continue` before its bytes are read
FileIdWarnings(r, i) ==
    LET f == r.files[i] IN
    IF FILENAME_RE(f.name) # NoMatch /\ f.cr THEN << Msg("cr", i, 0, f.name) >> ELSE <<>>

FilesAndIdsErrors(r, c2f, meta) ==
    LET order == MetaOrder(r, meta)
    IN  Flatten([k \in DOMAIN order |-> FileIdErrors(r, c2f, meta, order[k])])

FilesAndIdsWarnings(r, meta) ==
    LET order == MetaOrder(r, meta)
    IN  Flatten([k \in DOMAIN order |-> FileIdWarnings(r, order[k])])

(***************************************************************************)
(* check_hrefs: [meta, errs, fallback] after the occurrences from k on.    *)
(* occ is the sequence of <<file, node>> the two loops visit: the files of *)
(* file_meta in order, and in each all elements from the root down.        *)
(***************************************************************************)
HrefOccurrences(r, meta) ==
    LET order == MetaOrder(r, meta)
        OfFile(i) ==
            IF parse_xml(r.files[i])
            THEN [n \in DOMAIN r.files[i].nodes |-> << i, n >>]
            ELSE <<>>
    IN  Flatten([k \in DOMAIN order |-> OfFile(order[k])])

RECURSIVE HrefsFrom(_, _, _, _, _)
HrefsFrom(r, b2p, occ, k, st) ==
    IF k > Len(occ) THEN st
    ELSE
        LET i == occ[k][1]
            n == occ[k][2]
            href == r.files[i].nodes[n].href
            res == ResolveHref(b2p, href)
        IN  IF href = None THEN HrefsFrom(r, b2p, occ, k + 1, st)
            ELSE IF res.tgt = NoPath \/ res.frag = None
            THEN HrefsFrom(r, b2p, occ, k + 1,
                     [st EXCEPT !.errs = @ \o << Msg("invalid_href", i, n, href) >>])
            ELSE IF res.tgt \notin DOMAIN st.meta
            THEN \* parse on demand
                 LET t == r.files[FileIdx(r, res.tgt)] IN
                 IF ~parse_xml(t)
                 THEN HrefsFrom(r, b2p, occ, k + 1,
                          [st EXCEPT !.errs = @ \o << Msg("href_target_parse", i, n, href) >>,
                                     !.fallback = @ + 1])
                 ELSE LET m == << localname(t.nodes[1].tag), RootId(t) >>
                          e == IF res.frag # m[2]
                               THEN << Msg("href_id_mismatch", i, n, href) >> ELSE <<>>
                      IN  HrefsFrom(r, b2p, occ, k + 1,
                              [meta |-> Put(st.meta, res.tgt, m),
                               errs |-> st.errs \o e,
                               fallback |-> st.fallback + 1])
            ELSE IF res.frag # st.meta[res.tgt][2]
            THEN HrefsFrom(r, b2p, occ, k + 1,
                     [st EXCEPT !.errs = @ \o << Msg("href_id_mismatch", i, n, href) >>])
            ELSE HrefsFrom(r, b2p, occ, k + 1, st)

(***************************************************************************)
(* _is_relationship_allowed.  relation_rules is [nonempty, rules, groups]:  *)
(* whether the loaded dict has any key, its "rules" list ([] without the    *)
(* key) and its "groups" dict ({} without the key).  A rule is             *)
(* [relationship, sameClass, sourceClass, sourceGroup, targetClass,         *)
(* targetGroup], None for a key the rule lacks.                             *)
(***************************************************************************)
NoRules == [nonempty |-> FALSE, rules |-> <<>>, groups |-> EmptyDict]

\* in_group
in_group(groups, name, cls) ==
    cls \in (IF name \in DOMAIN groups THEN groups[name] ELSE {})

\* match_side
match_side(groups, rule_key_class, rule_key_group, actual) ==
    IF Truthy(rule_key_class) /\ rule_key_class = actual THEN TRUE
    ELSE IF Truthy(rule_key_group)
    THEN IF rule_key_group = <<"*">> THEN TRUE
         ELSE in_group(groups, rule_key_group, actual)
    ELSE FALSE

\* a test that takes a wildcard rule for a rule of every type
AnyForTypeOrWildcard(rules, rtype) ==
    \E i \in DOMAIN rules : rules[i].relationship \in {rtype, <<"*">>}

\* the test of line 386
AnyForType(rules, rtype) == \E i \in DOMAIN rules : rules[i].relationship = rtype

\* the loop over the rules from position i, then the test after it
RECURSIVE AllowedFrom(_, _, _, _, _)
AllowedFrom(rr, i, rtype, src, tgt) ==
    IF i > Len(rr.rules) THEN ~AnyForType(rr.rules, rtype)
    ELSE
        LET rule == rr.rules[i] IN
        IF rule.relationship \notin {rtype, <<"*">>}
        THEN AllowedFrom(rr, i + 1, rtype, src, tgt)
        ELSE IF rule.sameClass /\ src # tgt
        THEN AllowedFrom(rr, i + 1, rtype, src, tgt)
        ELSE IF /\ match_side(rr.groups, rule.sourceClass, rule.sourceGroup, src)
                /\ match_side(rr.groups, rule.targetClass, rule.targetGroup, tgt)
        THEN TRUE
        ELSE AllowedFrom(rr, i + 1, rtype, src, tgt)

IsRelationshipAllowed(rr, rtype, src, tgt) ==
    IF ~rr.nonempty THEN TRUE ELSE AllowedFrom(rr, 1, rtype, src, tgt)

(***************************************************************************)
(* check_relationships                                                     *)
(***************************************************************************)
\* root_local.endswith("Relationship")
EndsWithRelationship(tag) == tag # <<>> /\ tag[Len(tag)] = "Relationship"

\* [e for e in list(root) if localname(e.tag) == name], as node indices
RECURSIVE ChildrenFrom(_, _, _, _)
ChildrenFrom(f, parent, name, n) ==
    IF n > Len(f.nodes) THEN <<>>
    ELSE (IF f.nodes[n].parent = parent /\ localname(f.nodes[n].tag) = name
          THEN <<n>> ELSE <<>>)
         \o ChildrenFrom(f, parent, name, n + 1)

ChildrenNamed(f, parent, name) == ChildrenFrom(f, parent, name, 1)

\* e.get(xsi:type) or ""
TypeOrEmpty(e) == IF e.xtype = None THEN Empty ELSE e.xtype

\* the loop body of check_relationships up to the rule test (lines 243-258)
RelShapeErrors(r, i) ==
    LET f == r.files[i]
        src_elems == ChildrenNamed(f, 1, <<"source">>)
        tgt_elems == ChildrenNamed(f, 1, <<"target">>)
        Side(lab, coll) ==
            IF coll = <<>> THEN <<>>
            ELSE LET e == f.nodes[coll[1]] IN
                 (IF ~Truthy(e.href)
                  THEN << Msg("rel_missing_href", i, coll[1], lab) >> ELSE <<>>)
                 \o (IF ~Truthy(e.xtype)
                     THEN << Msg("rel_missing_type", i, coll[1], lab) >> ELSE <<>>)
    IN  (IF Len(src_elems) # 1
         THEN << Msg("rel_missing_single", i, 1, <<"source">>) >> ELSE <<>>)
        \o (IF Len(tgt_elems) # 1
            THEN << Msg("rel_missing_single", i, 1, <<"target">>) >> ELSE <<>>)
        \o Side(<<"source">>, src_elems)
        \o Side(<<"target">>, tgt_elems)

\* whether src_elems[0] or tgt_elems[0] raises IndexError (lines 262-263)
RelRuleTestRaises(r, rr, i) ==
    LET f == r.files[i] IN
    /\ rr.nonempty
    /\ \/ ChildrenNamed(f, 1, <<"source">>) = <<>>
       \/ ChildrenNamed(f, 1, <<"target">>) = <<>>

\* the rule test of check_relationships (lines 261-272)
RelRuleErrors(r, rr, meta, i) ==
    LET f == r.files[i]
        root_local == meta[Path(f)][1]
        src_elems == ChildrenNamed(f, 1, <<"source">>)
        tgt_elems == ChildrenNamed(f, 1, <<"target">>)
    IN  IF ~rr.nonempty THEN <<>>
        ELSE LET src_type == StripPrefix(TypeOrEmpty(f.nodes[src_elems[1]]))
                 tgt_type == StripPrefix(TypeOrEmpty(f.nodes[tgt_elems[1]]))
             IN  IF ~IsRelationshipAllowed(rr, root_local, src_type, tgt_type)
                 THEN << Msg("rel_not_allowed", i, 1, root_local) >> ELSE <<>>

\* check_relationships over the relationship files from position k of order:
\* [errs, raised], raised when an IndexError left the loop
RECURSIVE RelationshipsFrom(_, _, _, _, _, _)
RelationshipsFrom(r, rr, meta, order, k, st) ==
    IF k > Len(order) THEN st
    ELSE
        LET i == order[k] IN
        IF ~EndsWithRelationship(meta[Path(r.files[i])][1])
        THEN RelationshipsFrom(r, rr, meta, order, k + 1, st)
        ELSE IF RelRuleTestRaises(r, rr, i)
        THEN [errs |-> st.errs \o RelShapeErrors(r, i), raised |-> TRUE]
        ELSE RelationshipsFrom(r, rr, meta, order, k + 1,
                 [st EXCEPT !.errs = @ \o RelShapeErrors(r, i)
                                       \o RelRuleErrors(r, rr, meta, i)])

(***************************************************************************)
(* check_diagrams                                                          *)
(***************************************************************************)
DiagramRoots == { <<"ArchimateDiagramModel">>, <<"SketchModel">> }

\* the tags whose ids are collected (lines 282-288)
DiagramObjectTags ==
    { <<"DiagramModelArchimateObject">>, <<"DiagramModelNote">>,
      <<"DiagramModelImage">>, <<"DiagramModelGroup">>,
      <<"DiagramModelReference">> }

ConnectionType == <<"archimate", ":", "DiagramModelArchimateConnection">>
ObjectType == <<"archimate", ":", "DiagramModelArchimateObject">>

\* the loop of lines 280-289 over the descendants of f from node n on
RECURSIVE CollectIds(_, _, _)
CollectIds(f, n, ids) ==
    IF n > Len(f.nodes) THEN ids
    ELSE CollectIds(f, n + 1,
             IF Truthy(f.nodes[n].id) /\ localname(f.nodes[n].tag) \in DiagramObjectTags
             THEN ids \union {f.nodes[n].id} ELSE ids)

\* a set ids that is never reset between the files
DiagramIdsOfAllFiles(r, i) ==
    UNION {CollectIds(r.files[j], 2, {}) : j \in DOMAIN r.files}

\* the set ids of file i
DiagramIds(r, i) == CollectIds(r.files[i], 2, {})

\* dmo.find(name): the first direct child with that tag, 0 for None
FindChild(f, n, name) ==
    LET c == ChildrenNamed(f, n, name) IN IF c = <<>> THEN 0 ELSE c[1]

\* _diagram_object_element_type, from descendant n on
RECURSIVE ElementTypeFrom(_, _, _)
ElementTypeFrom(f, dmo_id, n) ==
    IF n > Len(f.nodes) THEN None
    ELSE IF f.nodes[n].id = dmo_id /\ f.nodes[n].xtype = ObjectType
    THEN LET el == FindChild(f, n, <<"archimateElement">>) IN
         IF el = 0 THEN None ELSE StripPrefix(TypeOrEmpty(f.nodes[el]))
    ELSE ElementTypeFrom(f, dmo_id, n + 1)

DiagramObjectElementType(f, dmo_id) ==
    IF ~Truthy(dmo_id) THEN None ELSE ElementTypeFrom(f, dmo_id, 2)

\* the errors of one connection (lines 293-320)
ConnectionErrors(r, rr, i, n, ids) ==
    LET f == r.files[i]
        conn == f.nodes[n]
        sid == conn.source
        tid == conn.target
        rels == ChildrenNamed(f, n, <<"archimateRelationship">>)
        OfRel(k) ==
            LET ch == f.nodes[rels[k]]
                rtype == StripPrefix(TypeOrEmpty(ch))
                src_elem_type == DiagramObjectElementType(f, sid)
                tgt_elem_type == DiagramObjectElementType(f, tid)
            IN  (IF ~Truthy(ch.href)
                 THEN << Msg("conn_missing_rel_href", i, n, Empty) >> ELSE <<>>)
                \o (IF /\ rr.nonempty
                       /\ Truthy(rtype) /\ Truthy(src_elem_type) /\ Truthy(tgt_elem_type)
                       /\ ~IsRelationshipAllowed(rr, rtype, src_elem_type, tgt_elem_type)
                    THEN << Msg("conn_not_allowed", i, n, rtype) >> ELSE <<>>)
    IN  (IF ~Truthy(sid) \/ sid \notin ids
         THEN << Msg("conn_dangling", i, n, <<"source">>) >> ELSE <<>>)
        \o (IF ~Truthy(tid) \/ tid \notin ids
            THEN << Msg("conn_dangling", i, n, <<"target">>) >> ELSE <<>>)
        \o Flatten([k \in DOMAIN rels |-> OfRel(k)])
        \o (IF rels = <<>> THEN << Msg("conn_missing_rel", i, n, Empty) >> ELSE <<>>)

\* the errors of one archimate-backed diagram object (lines 323-328)
ObjectErrors(r, i, n) ==
    LET f == r.files[i]
        ael == FindChild(f, n, <<"archimateElement">>)
    IN  (IF FindChild(f, n, <<"bounds">>) = 0
         THEN << Msg("dmo_missing_bounds", i, n, Empty) >> ELSE <<>>)
        \o (IF ael = 0 \/ ~Truthy(f.nodes[ael].href)
            THEN << Msg("dmo_missing_element", i, n, Empty) >> ELSE <<>>)

\* the errors of one diagram file
DiagramErrors(r, rr, i) ==
    LET f == r.files[i]
        ids == DiagramIds(r, i)
        Conn(n) == IF n > 1 /\ f.nodes[n].xtype = ConnectionType
                   THEN ConnectionErrors(r, rr, i, n, ids) ELSE <<>>
        Dmo(n) == IF n > 1 /\ f.nodes[n].xtype = ObjectType
                  THEN ObjectErrors(r, i, n) ELSE <<>>
    IN  Flatten([n \in DOMAIN f.nodes |-> Conn(n)])
        \o Flatten([n \in DOMAIN f.nodes |-> Dmo(n)])

DiagramsErrors(r, rr, meta) ==
    LET order == MetaOrder(r, meta)
        OfFile(i) == IF meta[Path(r.files[i])][1] \in DiagramRoots
                     THEN DiagramErrors(r, rr, i) ELSE <<>>
    IN  Flatten([k \in DOMAIN order |-> OfFile(order[k])])

(***************************************************************************)
(* optional_archi_load.  repo.archi is what the binary does: "none" (no    *)
(* --archi), "notexec", "raises" (subprocess.run raises), or one of        *)
(* "ok", "rc", "out", "rc_out": a non-zero return code, an error pattern   *)
(* in the output, both or neither.                                         *)
(***************************************************************************)
ArchiErrors(r) ==
    IF r.archi = "none" THEN <<>>
    ELSE IF r.archi = "notexec" THEN << Msg("archi_not_executable", 0, 0, Empty) >>
    ELSE IF r.archi = "raises" THEN << Msg("archi_failed_to_run", 0, 0, Empty) >>
    ELSE (IF r.archi \in {"rc", "rc_out"}
          THEN << Msg("archi_return_code", 0, 0, Empty) >> ELSE <<>>)
         \o (IF r.archi \in {"out", "rc_out"}
             THEN << Msg("archi_reported_errors", 0, 0, Empty) >> ELSE <<>>)

(***************************************************************************)
(* _report: the value it returns                                           *)
(***************************************************************************)
\* a _report that fails the run on warnings too
ReportCountingWarnings(errs, warns) == IF errs # <<>> \/ warns # <<>> THEN 1 ELSE 0

Report(errs, warns) == IF errs # <<>> THEN 1 ELSE 0

(***************************************************************************)
(* Validator.__init__: read_catalog and _read_relationship_rules.          *)
(* repo.catalog is [status, entries]: "absent", "malformed" or "ok", and   *)
(* the entries of its three lists in order, each [class, defaultFolder].   *)
(* repo.rules is [status, doc] likewise, doc as relation_rules.            *)
(***************************************************************************)
RECURSIVE CatalogFrom(_, _, _)
CatalogFrom(entries, k, c2f) ==
    IF k > Len(entries) THEN c2f
    ELSE LET e == entries[k] IN
         CatalogFrom(entries, k + 1,
             IF Truthy(e.class) /\ Truthy(e.defaultFolder)
             THEN Put(c2f, e.class, e.defaultFolder) ELSE c2f)

\* read_catalog raises ValueError
ReadCatalogRaises(r) == r.catalog.status = "malformed"

\* read_catalog: class_to_folder
ReadCatalog(r) ==
    IF r.catalog.status = "absent" THEN EmptyDict
    ELSE CatalogFrom(r.catalog.entries, 1, EmptyDict)

\* _read_relationship_rules: the dict returned
ReadRelationshipRules(r) ==
    IF r.rules.status = "ok" THEN r.rules.doc ELSE NoRules

\* _read_relationship_rules: the warnings it records
ReadRelationshipRulesWarnings(r) ==
    IF r.rules.status = "malformed" THEN << Msg("rules_unreadable", 0, 0, Empty) >>
    ELSE <<>>

Construct ==
    /\ pc = "main"
    /\ IF ReadCatalogRaises(repo)
       THEN /\ pc' = "crashed"
            /\ UNCHANGED <<class_to_folder, relation_rules, warnings>>
       ELSE /\ pc' = "check_structure"
            /\ class_to_folder' = ReadCatalog(repo)
            /\ relation_rules' = ReadRelationshipRules(repo)
            /\ warnings' = warnings \o ReadRelationshipRulesWarnings(repo)
    /\ UNCHANGED <<repo, errors, basename_to_path, file_meta, ret, ran, fallback,
                   args, result>>

(***************************************************************************)
(* Validator.run                                                           *)
(***************************************************************************)
CheckStructure ==
    /\ pc = "check_structure"
    /\ errors' = errors \o StructureErrors(repo)
    /\ ran' = Append(ran, "check_structure")
    /\ pc' = "gate"
    /\ UNCHANGED <<repo, warnings, class_to_folder, relation_rules,
                   basename_to_path, file_meta, ret, fallback, args, result>>

\* lines 412-414: if self.errors: self._report(); return 1
Gate ==
    /\ pc = "gate"
    /\ IF errors # <<>>
       THEN /\ ran' = Append(ran, "_report")
            /\ ret' = 1
            /\ pc' = "done"
       ELSE /\ pc' = "index_files"
            /\ UNCHANGED <<ran, ret>>
    /\ UNCHANGED <<repo, errors, warnings, class_to_folder, relation_rules,
                   basename_to_path, file_meta, fallback, args, result>>

IndexFiles ==
    /\ pc = "index_files"
    /\ LET st == IndexFrom(repo, 1,
                     [b2p |-> basename_to_path, meta |-> file_meta, errs |-> errors])
       IN  /\ basename_to_path' = st.b2p
           /\ file_meta' = st.meta
           /\ errors' = st.errs
    /\ ran' = Append(ran, "index_files")
    /\ pc' = "check_files_and_ids"
    /\ UNCHANGED <<repo, warnings, class_to_folder, relation_rules, ret, fallback,
                   args, result>>

CheckFilesAndIds ==
    /\ pc = "check_files_and_ids"
    /\ errors' = errors \o FilesAndIdsErrors(repo, class_to_folder, file_meta)
    /\ warnings' = warnings \o FilesAndIdsWarnings(repo, file_meta)
    /\ ran' = Append(ran, "check_files_and_ids")
    /\ pc' = "check_hrefs"
    /\ UNCHANGED <<repo, class_to_folder, relation_rules, basename_to_path,
                   file_meta, ret, fallback, args, result>>

CheckHrefs ==
    /\ pc = "check_hrefs"
    /\ LET st == HrefsFrom(repo, basename_to_path,
                     HrefOccurrences(repo, file_meta), 1,
                     [meta |-> file_meta, errs |-> errors, fallback |-> fallback])
       IN  /\ file_meta' = st.meta
           /\ errors' = st.errs
           /\ fallback' = st.fallback
    /\ ran' = Append(ran, "check_hrefs")
    /\ pc' = "check_relationships"
    /\ UNCHANGED <<repo, warnings, class_to_folder, relation_rules,
                   basename_to_path, ret, args, result>>

CheckRelationships ==
    /\ pc = "check_relationships"
    /\ LET st == RelationshipsFrom(repo, relation_rules, file_meta,
                     MetaOrder(repo, file_meta), 1,
                     [errs |-> errors, raised |-> FALSE])
       IN  /\ errors' = st.errs
           /\ pc' = IF st.raised THEN "crashed" ELSE "check_diagrams"
    /\ ran' = Append(ran, "check_relationships")
    /\ UNCHANGED <<repo, warnings, class_to_folder, relation_rules,
                   basename_to_path, file_meta, ret, fallback, args, result>>

CheckDiagrams ==
    /\ pc = "check_diagrams"
    /\ errors' = errors \o DiagramsErrors(repo, relation_rules, file_meta)
    /\ ran' = Append(ran, "check_diagrams")
    /\ pc' = "optional_archi_load"
    /\ UNCHANGED <<repo, warnings, class_to_folder, relation_rules,
                   basename_to_path, file_meta, ret, fallback, args, result>>

OptionalArchiLoad ==
    /\ pc = "optional_archi_load"
    /\ errors' = errors \o ArchiErrors(repo)
    /\ ran' = Append(ran, "optional_archi_load")
    /\ pc' = "report"
    /\ UNCHANGED <<repo, warnings, class_to_folder, relation_rules,
                   basename_to_path, file_meta, ret, fallback, args, result>>

\* line 421: return self._report()
ReportAndReturn ==
    /\ pc = "report"
    /\ ret' = Report(errors, warnings)
    /\ ran' = Append(ran, "_report")
    /\ pc' = "done"
    /\ UNCHANGED <<repo, errors, warnings, class_to_folder, relation_rules,
                   basename_to_path, file_meta, fallback, args, result>>

Next ==
    \/ Construct
    \/ CheckStructure
    \/ Gate
    \/ IndexFiles
    \/ CheckFilesAndIds
    \/ CheckHrefs
    \/ CheckRelationships
    \/ CheckDiagrams
    \/ OptionalArchiLoad
    \/ ReportAndReturn

(***************************************************************************)
(* Repositories.                                                           *)
(***************************************************************************)
Node(tag, parent, id, href, xtype, source, target) ==
    [tag |-> tag, parent |-> parent, id |-> id, href |-> href, xtype |-> xtype,
     source |-> source, target |-> target]

\* an element with a tag and a parent only
Plain(tag, parent) == Node(tag, parent, None, None, None, None, None)

File(top, name, parses, cr, nodes) ==
    [top |-> top, name |-> name, parses |-> parses, cr |-> cr, nodes |-> nodes]

\* <Class>_<id>.xml
FileName(cls, id) == cls \o <<"_">> \o id \o <<".xml">>

\* Filename.xml#id
Href(name, frag) == name \o <<"#">> \o frag

XsiType(cls) == <<"archimate", ":">> \o cls

\* the sequences of at most n files of U, no two at the same path
FileSeqs(U, n) ==
    {fs \in UNION {[1..k -> U] : k \in 0..n} :
        \A i, j \in DOMAIN fs : i # j => Path(fs[i]) # Path(fs[j])}

StatusOk == [f \in Range(TOP_FOLDERS) |-> "ok"]

\* the nine folders with at most MaxBroken of them broken
TopStatuses ==
    {t \in [Range(TOP_FOLDERS) -> {"ok", "nodir", "missing", "unparsable", "wrongroot"}] :
        Cardinality({f \in Range(TOP_FOLDERS) : t[f] # "ok"}) <= MaxBroken}

NoCatalog == [status |-> "absent", entries |-> <<>>]
NoRulesDoc == [status |-> "absent", doc |-> NoRules]

Repo(modelDir, rootDesc, top, files, catalog, rules, strict_ids, archi) ==
    [modelDir |-> modelDir, rootDesc |-> rootDesc, top |-> top, files |-> files,
     catalog |-> catalog, rules |-> rules, strict_ids |-> strict_ids,
     archi |-> archi]

\* a repository with a sound skeleton
Sound(files, catalog, rules, strict_ids, archi) ==
    Repo(TRUE, "ok", StatusOk, files, catalog, rules, strict_ids, archi)

BusinessActor == <<"BusinessActor">>
BusinessRole == <<"BusinessRole">>
Association == <<"Association", "Relationship">>
Id1 == <<"id", "-", "1">>
Id2 == <<"id", "-", "2">>
Id3 == <<"id", "-", "3">>

\* Business/BusinessActor_id-1.xml
ElementFiles ==
    {File(<<"Business">>, FileName(BusinessActor, Id1), FALSE, FALSE, <<>>)}
    \union
    {File(<<"Business">>, FileName(BusinessActor, Id1), TRUE, cr,
          << Node(BusinessActor, 0, Id1, None, None, None, None) >>) :
        cr \in BOOLEAN}

\* the <source> or <target> children of a relationship, by kind
SideNodes(lab, kind) ==
    LET href == Href(FileName(BusinessActor, Id1), Id1)
        full == Node(lab, 1, None, href, XsiType(BusinessActor), None, None)
    IN  CASE kind = "none" -> <<>>
          [] kind = "full" -> << full >>
          [] kind = "nohref" -> << Node(lab, 1, None, None, XsiType(BusinessActor), None, None) >>
          [] kind = "notype" -> << Node(lab, 1, None, href, None, None, None) >>
          [] kind = "two" -> << full, full >>

SideKinds == {"none", "full", "nohref", "notype", "two"}

\* Relations/AssociationRelationship_id-2.xml
RelationshipFiles ==
    {File(<<"Relations">>, FileName(Association, Id2), TRUE, FALSE,
          << Node(Association, 0, Id2, None, None, None, None) >>
          \o SideNodes(<<"source">>, s) \o SideNodes(<<"target">>, t)) :
        s \in SideKinds, t \in SideKinds}

\* a rule that lets every class be associated with every class
AllowAll ==
    [relationship |-> Association, sameClass |-> FALSE,
     sourceClass |-> None, sourceGroup |-> <<"*">>,
     targetClass |-> None, targetGroup |-> <<"*">>]

RulesDocs ==
    { NoRulesDoc,
      [status |-> "malformed", doc |-> NoRules],
      [status |-> "ok",
       doc |-> [nonempty |-> TRUE, rules |-> << AllowAll >>, groups |-> EmptyDict]] }

Catalogs ==
    { NoCatalog,
      [status |-> "malformed", entries |-> <<>>] }
    \union
    {[status |-> "ok",
      entries |-> << [class |-> BusinessActor, defaultFolder |-> folder] >>] :
        folder \in {<<"Business">>, <<"Application">>}}

ArchiOutcomes == {"none", "notexec", "raises", "ok", "rc", "out", "rc_out"}

\* Diagrams/ArchimateDiagramModel_id-3.xml: one archimate-backed object, with
\* or without its <bounds>
SimpleDiagramFiles ==
    {File(<<"Diagrams">>, FileName(<<"ArchimateDiagramModel">>, Id3), TRUE, FALSE,
          << Node(<<"ArchimateDiagramModel">>, 0, Id3, None, None, None, None),
             Node(<<"children">>, 1, <<"o", "1">>, None, ObjectType, None, None),
             Node(<<"archimateElement">>, 2, None,
                  Href(FileName(BusinessActor, Id1), Id1), XsiType(BusinessActor),
                  None, None) >>
          \o bounds) :
        bounds \in {<<>>, << Plain(<<"bounds">>, 2) >>}}

\* identifiers with and without underscores
NameIds ==
    { Id1, <<"id", "_", "1">>, <<"a", "-", "b", "_", "c">>,
      <<"id", "-", "0123456789abcdef0123456789ABCDEF">> }

NameTokens == { BusinessActor, <<"ArchimateDiagramModel">>, <<"SketchModel">> }

\* one file under every filename token, identifier, root tag and root id
NameRepos ==
    {Sound(<< File(<<"Business">>, FileName(cls, fid), TRUE, FALSE,
                   << Node(tag, 0, rid, None, None, None, None) >>) >>,
           catalog, NoRulesDoc, strict_ids, "none") :
        cls \in NameTokens, fid \in NameIds, tag \in NameTokens,
        rid \in NameIds \union {None},
        catalog \in {c \in Catalogs : c.status # "malformed"},
        strict_ids \in BOOLEAN}

\* every skeleton, around one element file
SkeletonRepos ==
    {Repo(modelDir, rootDesc, top, << f >>, NoCatalog, NoRulesDoc, FALSE, "none") :
        modelDir \in BOOLEAN,
        rootDesc \in {"ok", "missing", "unparsable", "wrongroot"},
        top \in TopStatuses,
        f \in {x \in ElementFiles : x.parses /\ ~x.cr}}

\* a sound skeleton around elements and relationships, with or without the
\* optional documents
ContentRepos ==
    {Sound(files, catalog, rules, FALSE, "none") :
        files \in FileSeqs(ElementFiles \union RelationshipFiles
                              \union SimpleDiagramFiles, MaxFiles),
        catalog \in Catalogs,
        rules \in RulesDocs}

\* a sound skeleton around one element file, with every outcome of the Archi
\* binary and both id modes
SmokeTestRepos ==
    {Sound(<< f >>, NoCatalog, rules, strict_ids, archi) :
        f \in ElementFiles,
        rules \in RulesDocs,
        strict_ids \in BOOLEAN,
        archi \in ArchiOutcomes}

\* the state when main() is entered with a repository of R
InitWith(R) ==
    /\ repo \in R
    /\ pc = "main"
    /\ errors = <<>>
    /\ warnings = <<>>
    /\ class_to_folder = EmptyDict
    /\ relation_rules = NoRules
    /\ basename_to_path = EmptyDict
    /\ file_meta = EmptyDict
    /\ ret = -1
    /\ ran = <<>>
    /\ fallback = 0
    /\ args = << Empty, Empty, Empty >>
    /\ result = FALSE

Init ==
    InitWith(SkeletonRepos \union ContentRepos \union SmokeTestRepos
             \union NameRepos)

Spec == Init /\ [][Next]_vars

(***************************************************************************)
(* Repositories of references: a target file, and a referring file whose   *)
(* root and descendants carry href values of every shape.                  *)
(***************************************************************************)
\* Business/BusinessActor_id-1.xml: well-formed, malformed, or without @id
TargetFiles ==
    { File(<<"Business">>, FileName(BusinessActor, Id1), TRUE, FALSE,
           << Node(BusinessActor, 0, Id1, None, None, None, None) >>),
      File(<<"Business">>, FileName(BusinessActor, Id1), FALSE, FALSE, <<>>),
      File(<<"Business">>, FileName(BusinessActor, Id1), TRUE, FALSE,
           << Node(BusinessActor, 0, None, None, None, None, None) >>) }

\* what follows the file's stem in an href
HrefTails ==
    { <<".xml", "#">> \o Id1, <<".xml", "#">> \o Id2, <<".xml", "#">>, <<".xml">>,
      <<"#">> \o Id1, <<>>,
      <<".xml", "#", "id", "/", "1">>,
      <<".xml", "#">> \o FileName(BusinessActor, Id1) \o <<"#">> \o Id1 }

\* href values: the target's stem with every tail, a file that is not there,
\* folder-qualified and absolute paths, and the empty string
HrefValues ==
    LET stem == BusinessActor \o <<"_">> \o Id1 IN
    {stem \o tail : tail \in HrefTails}
    \union
    {<<"Business", "/">> \o stem \o tail :
        tail \in {<<".xml", "#">> \o Id1, <<".xml", "#">> \o Id2}}
    \union
    { <<"/">> \o stem \o <<".xml", "#">> \o Id1,
      <<"Missing", "_", "id", "-", "9", ".xml", "#">> \o Id1,
      Empty }

\* the elements of the referring file: the root, then a chain of descendants
ReferringNodes ==
    UNION {
        {[n \in 1..(k + 1) |->
             Node(IF n = 1 THEN BusinessRole ELSE <<"property">>, n - 1,
                  IF n = 1 THEN Id2 ELSE None, h[n], None, None, None)] :
            h \in [1..(k + 1) -> HrefValues \union {None}]} :
        k \in 0..MaxDescendants}

\* Business/BusinessRole_id-2.xml
ReferringFiles ==
    {File(<<"Business">>, FileName(BusinessRole, Id2), TRUE, FALSE, nodes) :
        nodes \in ReferringNodes}

HrefRepos ==
    {Sound(<< s >>, NoCatalog, NoRulesDoc, FALSE, "none") : s \in ReferringFiles}
    \union
    {Sound(<< t, s >>, NoCatalog, NoRulesDoc, FALSE, "none") :
        t \in TargetFiles, s \in ReferringFiles}
    \union
    {Sound(<< s, t >>, NoCatalog, NoRulesDoc, FALSE, "none") :
        t \in {x \in TargetFiles : x.parses /\ x.nodes[1].id # None},
        s \in ReferringFiles}

InitHrefs == InitWith(HrefRepos)

SpecHrefs == InitHrefs /\ [][Next]_vars

(***************************************************************************)
(* Repositories of diagrams: a diagram with objects and connections, and a *)
(* sibling diagram with objects of its own.                                *)
(***************************************************************************)
O1 == <<"o", "1">>
O2 == <<"o", "2">>
O3 == <<"o", "3">>
O4 == <<"o", "4">>

\* the connections from position k on, the first of them node number at, each
\* followed by its <archimateRelationship> child if it has one
RECURSIVE ConnectionNodes(_, _, _, _)
ConnectionNodes(conns, k, at, parent) ==
    IF k > Len(conns) THEN <<>>
    ELSE LET c == conns[k]
             me == << Node(<<"sourceConnections">>, parent, None, None,
                           ConnectionType, c.source, c.target) >>
                   \o (IF c.rel
                       THEN << Node(<<"archimateRelationship">>, at, None,
                                    Href(FileName(Association, Id2), Id2),
                                    XsiType(Association), None, None) >>
                       ELSE <<>>)
         IN  me \o ConnectionNodes(conns, k + 1, at + Len(me), parent)

\* a diagram: objects under the tags of the allow-list with the ids objs, one
\* object typed by xsi:type with the id o3, its element and bounds, and the
\* connections nested in it
DiagramNodes(objs, conns) ==
    LET p3 == Len(objs) + 2 IN
    << Node(<<"ArchimateDiagramModel">>, 0, Id3, None, None, None, None) >>
    \o [k \in DOMAIN objs |->
           Node(<<"DiagramModelArchimateObject">>, 1, objs[k], None, None, None, None)]
    \o << Node(<<"children">>, 1, O3, None, ObjectType, None, None),
          Node(<<"archimateElement">>, p3, None,
               Href(FileName(BusinessActor, Id1), Id1), XsiType(BusinessActor),
               None, None),
          Plain(<<"bounds">>, p3) >>
    \o ConnectionNodes(conns, 1, p3 + 3, p3)

EndpointValues == {None, Empty, O1, O2, O3}

Connections ==
    UNION {[1..k -> [source : EndpointValues, target : EndpointValues, rel : BOOLEAN]] :
              k \in 0..MaxConnections}

\* Diagrams/ArchimateDiagramModel_id-3.xml
DiagramFiles(objsets) ==
    {File(<<"Diagrams">>, FileName(<<"ArchimateDiagramModel">>, Id3), TRUE, FALSE,
          DiagramNodes(objs, conns)) :
        objs \in objsets, conns \in Connections}

\* Diagrams/SketchModel_id-4.xml: a note with the id o2
SiblingDiagram ==
    File(<<"Diagrams">>, FileName(<<"SketchModel">>, <<"id", "-", "4">>), TRUE, FALSE,
         << Node(<<"SketchModel">>, 0, <<"id", "-", "4">>, None, None, None, None),
            Node(<<"DiagramModelNote">>, 1, O2, None, None, None, None) >>)

\* a rule document that lets roles alone be associated
RolesOnly ==
    [status |-> "ok",
     doc |-> [nonempty |-> TRUE,
              rules |-> << [relationship |-> Association, sameClass |-> FALSE,
                            sourceClass |-> BusinessRole, sourceGroup |-> None,
                            targetClass |-> BusinessRole, targetGroup |-> None] >>,
              groups |-> EmptyDict]]

\* a diagram as Archi writes it: the objects o4 and o3 are <children> elements
\* typed by xsi:type, each with its element and bounds, and the connections are
\* nested in o3
TypedDiagramNodes(conns) ==
    << Node(<<"ArchimateDiagramModel">>, 0, Id3, None, None, None, None),
       Node(<<"children">>, 1, O4, None, ObjectType, None, None),
       Node(<<"archimateElement">>, 2, None,
            Href(FileName(BusinessRole, Id2), Id2), XsiType(BusinessRole),
            None, None),
       Plain(<<"bounds">>, 2),
       Node(<<"children">>, 1, O3, None, ObjectType, None, None),
       Node(<<"archimateElement">>, 5, None,
            Href(FileName(BusinessActor, Id1), Id1), XsiType(BusinessActor),
            None, None),
       Plain(<<"bounds">>, 5) >>
    \o ConnectionNodes(conns, 1, 8, 5)

TypedConnections ==
    UNION {[1..k -> [source : {O3, O4}, target : {O3, O4}, rel : BOOLEAN]] :
              k \in 0..MaxConnections}

TypedDiagramFiles ==
    {File(<<"Diagrams">>, FileName(<<"ArchimateDiagramModel">>, Id3), TRUE, FALSE,
          TypedDiagramNodes(conns)) : conns \in TypedConnections}

\* a diagram with the object o1 beside a sibling that holds o2; a diagram alone
\* with no object or both; a diagram under a loaded rule document; and a
\* diagram as Archi writes it, with and without a rule document
DiagramRepos ==
    {Sound(IF sibling = "none" THEN << d >>
           ELSE IF sibling = "after" THEN << d, SiblingDiagram >>
           ELSE << SiblingDiagram, d >>,
           NoCatalog, NoRulesDoc, FALSE, "none") :
        d \in DiagramFiles({ << O1 >> }),
        sibling \in {"none", "after", "before"}}
    \union
    {Sound(<< d >>, NoCatalog, rules, FALSE, "none") :
        d \in DiagramFiles({ <<>>, << O1, O2 >> }),
        rules \in {NoRulesDoc}}
    \union
    {Sound(<< d >>, NoCatalog, RolesOnly, FALSE, "none") :
        d \in DiagramFiles({ << O1, O2 >> })}
    \union
    {Sound(<< d >>, NoCatalog, rules, FALSE, "none") :
        d \in TypedDiagramFiles, rules \in {NoRulesDoc, RolesOnly}}

InitDiagrams == InitWith(DiagramRepos)

SpecDiagrams == InitDiagrams /\ [][Next]_vars

(***************************************************************************)
(* A direct call of _is_relationship_allowed, on every rule document of at *)
(* most MaxRules rules and every triple.                                   *)
(***************************************************************************)
Flow == <<"Flow", "Relationship">>
BusinessElements == <<"BusinessElements">>

\* the (class, group) pairs of a rule's source side and target side
SourceMatchers ==
    { << BusinessActor, None >>, << None, BusinessElements >>, << None, <<"*">> >>,
      << None, None >> }

TargetMatchers == { << BusinessRole, None >>, << None, BusinessElements >> }

RuleUniverse ==
    {[relationship |-> rel, sameClass |-> same,
      sourceClass |-> s[1], sourceGroup |-> s[2],
      targetClass |-> t[1], targetGroup |-> t[2]] :
        rel \in {Association, <<"*">>}, same \in BOOLEAN,
        s \in SourceMatchers, t \in TargetMatchers}

\* the loaded documents: {} and the documents with a "groups" key
RuleDocuments ==
    { NoRules }
    \union
    {[nonempty |-> TRUE, rules |-> rules,
      groups |-> [g \in {BusinessElements} |-> {BusinessActor}]] :
        rules \in UNION {[1..k -> RuleUniverse] : k \in 0..MaxRules}}

Triples ==
    {<< rtype, src, tgt >> :
        rtype \in {Association, Flow},
        src \in {BusinessActor, BusinessRole, Empty},
        tgt \in {BusinessActor, BusinessRole, Empty}}

InitRules ==
    /\ repo = Sound(<<>>, NoCatalog, NoRulesDoc, FALSE, "none")
    /\ pc = "call"
    /\ relation_rules \in RuleDocuments
    /\ args \in Triples
    /\ result = FALSE
    /\ errors = <<>>
    /\ warnings = <<>>
    /\ class_to_folder = EmptyDict
    /\ basename_to_path = EmptyDict
    /\ file_meta = EmptyDict
    /\ ret = -1
    /\ ran = <<>>
    /\ fallback = 0

CallIsRelationshipAllowed ==
    /\ pc = "call"
    /\ result' = IsRelationshipAllowed(relation_rules, args[1], args[2], args[3])
    /\ pc' = "returned"
    /\ UNCHANGED <<repo, errors, warnings, class_to_folder, relation_rules,
                   basename_to_path, file_meta, ret, ran, fallback, args>>

NextRules == CallIsRelationshipAllowed

SpecRules == InitRules /\ [][NextRules]_vars

(***************************************************************************)
(* Properties.                                                             *)
(***************************************************************************)
\* how many times a message was recorded
NumErrors(kind, f, n, d) ==
    Cardinality({k \in DOMAIN errors : errors[k] = Msg(kind, f, n, d)})

NumWarnings(kind) ==
    Cardinality({k \in DOMAIN warnings : warnings[k].kind = kind})

\* the method has returned or raised in this run
Ran(method) == method \in Range(ran)

\* Validator.run has ended: it returned, or an exception left it
RunEnded == ran # <<>> /\ pc \in {"done", "crashed"}

LaterPhases ==
    << "index_files", "check_files_and_ids", "check_hrefs", "check_relationships",
       "check_diagrams", "optional_archi_load" >>

\* C1: if check_structure records an error, no later phase is executed, the
\* index mappings stay empty and the run returns failure; if it records none,
\* all later phases run in their fixed order, index_files first.
C1_StructuralGate ==
    IF StructureErrors(repo) # <<>>
    THEN /\ \A m \in Range(LaterPhases) : ~Ran(m)
         /\ basename_to_path = EmptyDict
         /\ file_meta = EmptyDict
         /\ RunEnded => pc = "done" /\ ret # 0
    ELSE RunEnded => ran = <<"check_structure">> \o LaterPhases \o <<"_report">>

\* C2: in every run that reaches the reporter, run returns 0 if and only if
\* no error was recorded, whatever the number of warnings.
C2_ExitStatus ==
    pc = "done" => (ret = 0 <=> errors = <<>>)

\* a run that passed although warnings were recorded
C2_Witness ==
    pc = "done" /\ ret = 0 /\ warnings # <<>> /\ Ran("optional_archi_load")

\* the files of file_meta whose root tag ends with "Relationship"
RelationshipFilesIndexed ==
    {i \in DOMAIN repo.files :
        /\ Path(repo.files[i]) \in DOMAIN file_meta
        /\ EndsWithRelationship(file_meta[Path(repo.files[i])][1])}

\* the number of direct children of the root of file i with a tag
NumChildren(i, name) ==
    Cardinality({n \in DOMAIN repo.files[i].nodes :
        repo.files[i].nodes[n].parent = 1 /\ repo.files[i].nodes[n].tag = name})

\* C4: check_relationships terminates normally under every configuration; a
\* relationship file with no <source> and one <target> yields exactly one
\* relationship-shape error for the source side and none for the target side,
\* and symmetrically; the later phases still run.
C4_RelationshipShape ==
    /\ Ran("check_relationships") => pc # "crashed"
    /\ Ran("check_relationships") =>
         \A i \in RelationshipFilesIndexed :
             /\ NumChildren(i, <<"source">>) = 0 /\ NumChildren(i, <<"target">>) = 1
                  => /\ NumErrors("rel_missing_single", i, 1, <<"source">>) = 1
                     /\ NumErrors("rel_missing_single", i, 1, <<"target">>) = 0
             /\ NumChildren(i, <<"target">>) = 0 /\ NumChildren(i, <<"source">>) = 1
                  => /\ NumErrors("rel_missing_single", i, 1, <<"target">>) = 1
                     /\ NumErrors("rel_missing_single", i, 1, <<"source">>) = 0
    /\ RunEnded /\ StructureErrors(repo) = <<>> => Ran("check_diagrams")

\* C5: a catalog or rule document that is present but unreadable leaves the
\* validator constructed with that document's data empty, exactly one warning
\* naming the failure and no error; an absent document gives the same empty
\* data and no warning.
C5_OptionalMetadataDegradation ==
    pc # "main" =>
        /\ repo.catalog.status \in {"malformed", "absent"} =>
               /\ ~(pc = "crashed" /\ ran = <<>>)
               /\ class_to_folder = EmptyDict
        /\ repo.rules.status \in {"malformed", "absent"} =>
               /\ ~(pc = "crashed" /\ ran = <<>>)
               /\ relation_rules = NoRules
        /\ NumWarnings("rules_unreadable") =
               (IF repo.rules.status = "malformed" THEN 1 ELSE 0)
        /\ NumWarnings("catalog_unreadable") =
               (IF repo.catalog.status = "malformed" THEN 1 ELSE 0)
        /\ pc = "check_structure" => errors = <<>>

\* a file named <token>_<rest>.xml after its own root: the token is the root
\* tag (letters, digits, underscore) and the rest is the root id
NamedAfterRoot(f) ==
    /\ f.parses
    /\ Truthy(RootId(f))
    /\ \A k \in DOMAIN f.nodes[1].tag : f.nodes[1].tag[k] \notin Separators
    /\ f.name = FileName(f.nodes[1].tag, RootId(f))

IdentityKinds == {"invalid_filename", "class_mismatch", "id_mismatch"}

\* C7: the part of the filename after the class token is taken whole as the
\* identifier, underscores included: a file named after its root tag and root
\* id gets no identity error.
C7_FilenameDecomposition ==
    Ran("check_files_and_ids") =>
        \A i \in DOMAIN repo.files :
            NamedAfterRoot(repo.files[i]) =>
                \A k \in DOMAIN errors :
                    ~(errors[k].f = i /\ errors[k].kind \in IdentityKinds)

\* C8: a file whose filename token differs from its root tag gets a
\* class-mismatch error unless its root is a diagram root kind and its token a
\* diagram token; a file with another root is never exempt.
C8_ClassRootAgreement ==
    Ran("check_files_and_ids") =>
        \A i \in DOMAIN repo.files :
            LET f == repo.files[i]
                m == FILENAME_RE(f.name)
            IN  /\ f.parses
                /\ m # NoMatch
                /\ m[1] # f.nodes[1].tag
                /\ ~(f.nodes[1].tag \in DiagramRoots /\ m[1] \in DiagramTokens)
                => NumErrors("class_mismatch", i, 1, m[1]) = 1

\* C10: once index_files has completed, every path of the filename-to-path
\* mapping has an entry in file_meta, whatever the files hold; the on-demand
\* parse of check_hrefs is never reached and check_hrefs adds no entry.
C10_IndexTotality ==
    Ran("index_files") =>
        /\ \A name \in DOMAIN basename_to_path :
               basename_to_path[name] \in DOMAIN file_meta
        /\ fallback = 0
        /\ DOMAIN file_meta =
               {Path(repo.files[i]) : i \in {j \in DOMAIN repo.files : repo.files[j].parses}}

\* one side of a rule matches a class: the rule names that class, or a group
\* the class is a member of, or the group wildcard
SideMatches(groups, class, group, actual) ==
    \/ class # None /\ class = actual
    \/ group # None /\ group \in DOMAIN groups /\ actual \in groups[group]
    \/ group = <<"*">>

\* a rule matches a triple
RuleMatches(groups, rule, rtype, src, tgt) ==
    /\ rule.relationship = rtype \/ rule.relationship = <<"*">>
    /\ rule.sameClass => src = tgt
    /\ SideMatches(groups, rule.sourceClass, rule.sourceGroup, src)
    /\ SideMatches(groups, rule.targetClass, rule.targetGroup, tgt)

\* C3: with a loaded rule set, _is_relationship_allowed returns true if and
\* only if some rule matches the triple or no rule exists for the relationship
\* type at all.
C3_RuleEvaluation ==
    pc = "returned" /\ relation_rules.nonempty =>
        LET rules == relation_rules.rules IN
        result =
            (\/ \E i \in DOMAIN rules :
                    RuleMatches(relation_rules.groups, rules[i], args[1], args[2], args[3])
             \/ ~\E i \in DOMAIN rules : rules[i].relationship = args[1])

\* a triple denied by omission: its type has a rule, a wildcard rule is there
\* too, and none matches
C3_Witness ==
    /\ pc = "returned"
    /\ ~result
    /\ \E i, j \in DOMAIN relation_rules.rules :
           /\ relation_rules.rules[i].relationship = args[1]
           /\ relation_rules.rules[j].relationship = <<"*">>

HrefKinds == {"invalid_href", "href_target_parse", "href_id_mismatch"}

\* the reference errors recorded for the href of node n of file i
RefErrors(i, n) ==
    Cardinality({k \in DOMAIN errors :
        errors[k].f = i /\ errors[k].n = n /\ errors[k].kind \in HrefKinds})

\* an href resolves: one path segment without a separator, ".xml#", a
\* non-empty fragment; the filename is indexed; the fragment is the root id of
\* the file indexed under it
Resolves(href) ==
    \E k \in 2..Len(href) :
        /\ href[k] = ".xml"
        /\ Len(href) >= k + 2
        /\ href[k + 1] = "#"
        /\ \A j \in 1..k : href[j] # "/"
        /\ SubStr(href, 1, k) \in DOMAIN basename_to_path
        /\ LET t == repo.files[FileIdx(repo, basename_to_path[SubStr(href, 1, k)])]
           IN  t.parses /\ t.nodes[1].id = SubStr(href, k + 2, Len(href))

\* C6: after check_hrefs, an href occurrence on any element of an indexed file
\* has no reference error if and only if it resolves, and exactly one
\* otherwise.
C6_ReferenceResolution ==
    Ran("check_hrefs") =>
        \A i \in DOMAIN repo.files :
            repo.files[i].parses =>
                \A n \in DOMAIN repo.files[i].nodes :
                    LET href == repo.files[i].nodes[n].href IN
                    href # None =>
                        RefErrors(i, n) = (IF Resolves(href) THEN 0 ELSE 1)

\* a descendant's href resolves while the root's href names the right file
\* with another fragment and gets the one mismatch error
C6_Witness ==
    /\ Ran("check_hrefs")
    /\ \E i \in DOMAIN repo.files :
           /\ repo.files[i].parses
           /\ Len(repo.files[i].nodes) >= 2
           /\ repo.files[i].nodes[2].href # None
           /\ Resolves(repo.files[i].nodes[2].href)
           /\ RefErrors(i, 2) = 0
           /\ repo.files[i].nodes[1].href = Href(FileName(BusinessActor, Id1), Id2)
           /\ NumErrors("href_id_mismatch", i, 1, repo.files[i].nodes[1].href) = 1
           /\ RefErrors(i, 1) = 1

\* the ids of the diagram objects of a file: of its descendants under a tag of
\* the allow-list
LocalIds(f) ==
    {f.nodes[n].id : n \in {m \in DOMAIN f.nodes :
        /\ m > 1
        /\ f.nodes[m].id \notin {None, Empty}
        /\ f.nodes[m].tag \in DiagramObjectTags}}

\* the connections of a file
ConnectionsOf(f) ==
    {n \in DOMAIN f.nodes : n > 1 /\ f.nodes[n].xtype = ConnectionType}

\* an endpoint value is dangling in a file
Dangling(f, v) == v = None \/ v = Empty \/ v \notin LocalIds(f)

\* C9: for every connection of every diagram file, a dangling-endpoint error
\* is recorded for its source if and only if the source id is absent or not
\* among the diagram-object ids of that same file, and likewise for its target.
C9_DiagramLocality ==
    Ran("check_diagrams") =>
        \A i \in DOMAIN repo.files :
            LET f == repo.files[i] IN
            f.parses /\ f.nodes[1].tag \in DiagramRoots =>
                \A n \in ConnectionsOf(f) :
                    /\ NumErrors("conn_dangling", i, n, <<"source">>) =
                           (IF Dangling(f, f.nodes[n].source) THEN 1 ELSE 0)
                    /\ NumErrors("conn_dangling", i, n, <<"target">>) =
                           (IF Dangling(f, f.nodes[n].target) THEN 1 ELSE 0)

\* a connection whose source is an object of its own diagram and whose target
\* is an object of the sibling diagram only: one dangling-endpoint error
C9_Witness ==
    /\ Ran("check_diagrams")
    /\ \E i, j \in DOMAIN repo.files : \E n \in ConnectionsOf(repo.files[i]) :
           /\ i # j
           /\ repo.files[i].nodes[n].source \in LocalIds(repo.files[i])
           /\ repo.files[i].nodes[n].target \notin LocalIds(repo.files[i])
           /\ repo.files[i].nodes[n].target \in LocalIds(repo.files[j])
           /\ NumErrors("conn_dangling", i, n, <<"target">>) = 1
    /\ Cardinality({k \in DOMAIN errors : errors[k].kind = "conn_dangling"}) = 1

\* the descendants of a file that check_diagrams treats as archimate-backed
\* diagram objects: those typed archimate:DiagramModelArchimateObject
TreatedAsObjects(f) ==
    {n \in DOMAIN f.nodes : n > 1 /\ f.nodes[n].xtype = ObjectType}

\* the ids of those of them that have one
TreatedIds(f) ==
    {f.nodes[n].id : n \in {m \in TreatedAsObjects(f) :
                               f.nodes[m].id \notin {None, Empty}}}

\* C11: in every diagram file, the id of every descendant treated as an
\* archimate-backed diagram object is a member of the id set against which the
\* connection endpoints are tested, and a connection whose source and target
\* are ids of such objects of the same file gets no dangling-endpoint error.
C11_ObjectRecognition ==
    Ran("check_diagrams") =>
        \A i \in DOMAIN repo.files :
            LET f == repo.files[i] IN
            f.parses /\ f.nodes[1].tag \in DiagramRoots =>
                /\ TreatedIds(f) \subseteq DiagramIds(repo, i)
                /\ \A n \in ConnectionsOf(f) :
                       /\ f.nodes[n].source \in TreatedIds(f)
                       /\ f.nodes[n].target \in TreatedIds(f)
                       => /\ NumErrors("conn_dangling", i, n, <<"source">>) = 0
                          /\ NumErrors("conn_dangling", i, n, <<"target">>) = 0

====
